---------------------------- MODULE Spec2Model ----------------------------
(***************************************************************************)
(* TimecardHistoryScreen (src/src/screens/TimecardHistoryScreen.js): the   *)
(* period/search filter, the hours summary, the grouping of clock events   *)
(* into work days, the day status and the submission workflow.             *)
(*                                                                         *)
(* Time is counted in ticks of half an hour.  A timestamp is the number of *)
(* ticks since Sunday 1 January 2023 00:00 local time; an attributed date  *)
(* is the number of days since that Sunday.  Hour amounts (day totals and  *)
(* the four summary fields) are kept in ticks, so the 8 h and 12 h         *)
(* thresholds are 8 * TicksPerHour and 12 * TicksPerHour.                  *)
(***************************************************************************)
EXTENDS Integers, Sequences, FiniteSets

VARIABLES
    store,              \* events held by the ClockEvent store (TimeclockService)
    timecards,          \* useState: events of the last successful load
    filteredTimecards,  \* useState: result of the last filterTimecards
    searchQuery,        \* useState: free-text query
    selectedPeriod,     \* useState: "week" | "month" | "all"
    summary,            \* useState: hours summary of the last calculateSummary
    refreshing,         \* useState: pull-to-refresh in progress
    now,                \* the instant new Date() yields in filterTimecards
    dialog,             \* the Alert dialog on screen
    loads,              \* getTimecards() calls in flight
    submits,            \* submitForApproval(date) calls in flight
    alerts,             \* result alerts shown so far (most recent last)
    newestResult,       \* history: of the fetches that have resolved, the
                        \* result of the one issued last
    exporting,          \* useState: export in progress
    exports,            \* ExportService.exportTimecardData calls in flight
    \* JobSelectionScreen (src/src/screens/JobSelectionScreen.js)
    jobSites,           \* useState: job sites of the last successful load
    selectedJob,        \* useState: selected job or null
    selectedTask,       \* useState: selected task or null
    jobSearchQuery,     \* useState searchQuery of JobSelectionScreen
    nearbyJobs,         \* useState: job sites within 1 km, nearest first
    savedSelection,     \* AsyncStorage item 'selectedJobAndTask'
    jobCalls,           \* asynchronous calls of JobSelectionScreen in flight
    jobDialog,          \* the Confirm Selection dialog with the values it captured
    currentLocation,    \* useState: the device location or null ("none")
    jobRefreshing,      \* useState refreshing of JobSelectionScreen
    jobAlert,           \* the last plain alert JobSelectionScreen has shown
    \* PhotoViewer (src/src/components/PhotoViewer.js)
    photos,             \* prop: the photos to show
    selectedPhotoIndex, \* prop: the index to start at
    currentIndex,       \* useState: index of the photo on display, from 0
    imageLoading,       \* useState: the Loading... overlay is shown
    photoShares,        \* share handlers in flight, with the photo each captured
    photoAlert,         \* the last alert PhotoViewer has shown
    lastPhotoOp         \* history: the handler of PhotoViewer called last

exportVars == <<exporting, exports>>

jobVars == <<jobSites, selectedJob, selectedTask, jobSearchQuery, nearbyJobs,
             savedSelection, jobCalls, jobDialog, currentLocation,
             jobRefreshing, jobAlert>>

photoVars == <<photos, selectedPhotoIndex, currentIndex, imageLoading,
               photoShares, photoAlert, lastPhotoOp>>

timecardVars == <<store, timecards, filteredTimecards, searchQuery, selectedPeriod,
                  summary, refreshing, now, dialog, loads, submits, alerts,
                  newestResult>>

vars == <<store, timecards, filteredTimecards, searchQuery, selectedPeriod,
          summary, refreshing, now, dialog, loads, submits, alerts, newestResult,
          exportVars, jobVars, photoVars>>

----------------------------------------------------------------------------
(* Bounds of the model *)

MaxEvents == 4          \* longest event list drawn for the pure functions
MaxFilterEvents == 2    \* longest event list drawn for the filter inputs
MaxLoads == 2           \* most getTimecards() calls in flight
MaxSubmits == 2         \* most submitForApproval calls in flight
MaxAlerts == 1          \* result alerts remembered
MaxExports == 2         \* most exportTimecardData calls in flight
MaxSaves == 1           \* most AsyncStorage.setItem calls in flight
MaxPhotos == 3          \* most photos handed to PhotoViewer
MaxShares == 1          \* most share handlers in flight
TicksPerHour == 2       \* resolution of the clock: ticks in one hour

TicksPerDay == 24 * TicksPerHour

----------------------------------------------------------------------------
(* Sequences *)

Range(s) == {s[i] : i \in 1..Len(s)}

RECURSIVE SumSeq(_)
SumSeq(s) == IF s = <<>> THEN 0 ELSE Head(s) + SumSeq(Tail(s))

RECURSIVE Flatten(_)
Flatten(ss) == IF ss = <<>> THEN <<>> ELSE Head(ss) \o Flatten(Tail(ss))

Reverse(s) == [i \in 1..Len(s) |-> s[Len(s) + 1 - i]]

\* all sequences of at most n pairwise different elements of S
RECURSIVE DistinctSeqs(_, _)
DistinctSeqs(S, n) ==
    IF n = 0 THEN {<<>>}
    ELSE LET shorter == DistinctSeqs(S, n - 1)
         IN  shorter \cup
             {Append(p[1], p[2]) : p \in {q \in shorter \X S : q[2] \notin Range(q[1])}}

----------------------------------------------------------------------------
(* Strings are sequences of one-character strings *)

UpperChars == <<"A","B","C","D","E","F","G","H","I","J","K","L","M",
                "N","O","P","Q","R","S","T","U","V","W","X","Y","Z">>
LowerChars == <<"a","b","c","d","e","f","g","h","i","j","k","l","m",
                "n","o","p","q","r","s","t","u","v","w","x","y","z">>

UpperToLower ==
    [c \in {UpperChars[i] : i \in 1..Len(UpperChars)} |->
        LowerChars[CHOOSE i \in 1..Len(UpperChars) : UpperChars[i] = c]]

LowerChar(c) == IF c \in DOMAIN UpperToLower THEN UpperToLower[c] ELSE c

\* String.prototype.toLowerCase
toLowerCase(str) == [i \in 1..Len(str) |-> LowerChar(str[i])]

\* String.prototype.includes
includes(str, q) ==
    \E i \in 0..(Len(str) - Len(q)) : SubSeq(str, i + 1, i + Len(q)) = q

\* the characters of the four event kinds (tc.type)
TypeChars(type) ==
    CASE type = "clock_in"  -> <<"c","l","o","c","k","_","i","n">>
      [] type = "clock_out" -> <<"c","l","o","c","k","_","o","u","t">>
      [] type = "lunch_out" -> <<"l","u","n","c","h","_","o","u","t">>
      [] type = "lunch_in"  -> <<"l","u","n","c","h","_","i","n">>

----------------------------------------------------------------------------
(* Calendar: day 0 is Sunday 1 January 2023 *)

DaysInMonth == <<31, 28, 31, 30>>    \* January .. April 2023

RECURSIVE MonthFirstDay(_)
MonthFirstDay(m) == IF m = 1 THEN 0 ELSE MonthFirstDay(m - 1) + DaysInMonth[m - 1]

MonthOfDay(d) ==
    CHOOSE m \in 1..Len(DaysInMonth) :
        MonthFirstDay(m) <= d /\ d < MonthFirstDay(m) + DaysInMonth[m]

DayOf(t) == t \div TicksPerDay

\* date-fns parseISO of a date-only string: local midnight of that day
parseISO(date) == date * TicksPerDay

\* new Date(string) as used by the sort comparators
DateOf(date) == date * TicksPerDay

\* date-fns startOfWeek / endOfWeek (week starts on Sunday)
startOfWeek(t) == (DayOf(t) - (DayOf(t) % 7)) * TicksPerDay
endOfWeek(t) == startOfWeek(t) + 7 * TicksPerDay - 1

\* date-fns startOfMonth / endOfMonth
startOfMonth(t) == MonthFirstDay(MonthOfDay(DayOf(t))) * TicksPerDay
endOfMonth(t) ==
    (MonthFirstDay(MonthOfDay(DayOf(t))) + DaysInMonth[MonthOfDay(DayOf(t))])
        * TicksPerDay - 1

----------------------------------------------------------------------------
(* ClockEvent records.  job and task are optional: has = FALSE is an       *)
(* absent (null/undefined) reference.                                      *)

NoRef == [has |-> FALSE, name |-> <<>>]
Ref(nm) == [has |-> TRUE, name |-> nm]

Event(i, d, ts, ty, j, t, st) ==
    [id |-> i, date |-> d, timestamp |-> ts, type |-> ty,
     job |-> j, task |-> t, status |-> st]

ZeroSummary ==
    [totalHours |-> 0, regularHours |-> 0, overtimeHours |-> 0, doubleTimeHours |-> 0]

----------------------------------------------------------------------------
(* TimeclockService.calculateDayHours: scan of one day's events in the     *)
(* order given, with a "clocked in" flag, an "on lunch" flag and the start *)
(* of the running span.  The result is in ticks.                           *)

ScanStart == [total |-> 0, clockedIn |-> FALSE, onLunch |-> FALSE, since |-> 0]

ScanStep(st, tc) ==
    CASE tc.type = "clock_in" ->
            IF st.clockedIn THEN st
            ELSE [st EXCEPT !.clockedIn = TRUE, !.onLunch = FALSE, !.since = tc.timestamp]
      [] tc.type = "lunch_out" ->
            IF st.clockedIn /\ ~st.onLunch
            THEN [st EXCEPT !.total = @ + (tc.timestamp - st.since), !.onLunch = TRUE]
            ELSE st
      [] tc.type = "lunch_in" ->
            IF st.clockedIn /\ st.onLunch
            THEN [st EXCEPT !.onLunch = FALSE, !.since = tc.timestamp]
            ELSE st
      [] tc.type = "clock_out" ->
            IF ~st.clockedIn THEN st
            ELSE [st EXCEPT !.total = IF st.onLunch THEN @ ELSE @ + (tc.timestamp - st.since),
                            !.clockedIn = FALSE, !.onLunch = FALSE]
      [] OTHER -> st

RECURSIVE Scan(_, _)
Scan(st, tcs) == IF tcs = <<>> THEN st ELSE Scan(ScanStep(st, Head(tcs)), Tail(tcs))

calculateDayHours(tcs) == Scan(ScanStart, tcs).total

----------------------------------------------------------------------------
(* Grouping by attributed date (calculateSummary 103-109 and               *)
(* getTimecardsByDate 195-201): an object keyed by tc.date whose keys are  *)
(* enumerated in insertion order.                                          *)

\* Object.keys of the grouping object: the dates in order of first appearance
RECURSIVE dateKeys(_)
dateKeys(tcs) ==
    IF tcs = <<>> THEN <<>>
    ELSE LET front == dateKeys(SubSeq(tcs, 1, Len(tcs) - 1))
             d == tcs[Len(tcs)].date
         IN  IF d \in Range(front) THEN front ELSE Append(front, d)

\* groupOf with the array replaced, not extended, by each event of the date
groupOf_Overwrite(tcs, date) ==
    LET all == SelectSeq(tcs, LAMBDA tc : tc.date = date)
    IN  IF all = <<>> THEN <<>> ELSE <<all[Len(all)]>>

\* the array stored under one key: the events of that date, in input order
groupOf(tcs, date) == SelectSeq(tcs, LAMBDA tc : tc.date = date)

----------------------------------------------------------------------------
(* calculateSummary *)

\* AddDay with the overtime of a day above 12 h not capped at 4 h
AddDay_UncappedOvertime(acc, dayHours) ==
    LET withTotal == [acc EXCEPT !.totalHours = @ + dayHours]
    IN  IF dayHours > 8 * TicksPerHour
        THEN [withTotal EXCEPT !.regularHours = @ + 8 * TicksPerHour,
                               !.overtimeHours = @ + (dayHours - 8 * TicksPerHour),
                               !.doubleTimeHours =
                                   @ + (IF dayHours > 12 * TicksPerHour
                                        THEN dayHours - 12 * TicksPerHour ELSE 0)]
        ELSE [withTotal EXCEPT !.regularHours = @ + dayHours]

\* AddDay without the 8 regular hours of a day between 8 h and 12 h
AddDay_NoRegularInOvertimeTier(acc, dayHours) ==
    LET withTotal == [acc EXCEPT !.totalHours = @ + dayHours]
    IN  IF dayHours > 12 * TicksPerHour
        THEN [withTotal EXCEPT !.regularHours = @ + 8 * TicksPerHour,
                               !.overtimeHours = @ + 4 * TicksPerHour,
                               !.doubleTimeHours = @ + (dayHours - 12 * TicksPerHour)]
        ELSE IF dayHours > 8 * TicksPerHour
        THEN [withTotal EXCEPT !.overtimeHours = @ + (dayHours - 8 * TicksPerHour)]
        ELSE [withTotal EXCEPT !.regularHours = @ + dayHours]

\* AddDay assigning the regular hours of a long day instead of adding them
AddDay_AssignRegular(acc, dayHours) ==
    LET withTotal == [acc EXCEPT !.totalHours = @ + dayHours]
    IN  IF dayHours > 12 * TicksPerHour
        THEN [withTotal EXCEPT !.regularHours = 8 * TicksPerHour,
                               !.overtimeHours = @ + 4 * TicksPerHour,
                               !.doubleTimeHours = @ + (dayHours - 12 * TicksPerHour)]
        ELSE IF dayHours > 8 * TicksPerHour
        THEN [withTotal EXCEPT !.regularHours = 8 * TicksPerHour,
                               !.overtimeHours = @ + (dayHours - 8 * TicksPerHour)]
        ELSE [withTotal EXCEPT !.regularHours = @ + dayHours]

\* the body of the forEach over the dates: one day's total added to the sums
AddDay(acc, dayHours) ==
    LET withTotal == [acc EXCEPT !.totalHours = @ + dayHours]
    IN  IF dayHours > 12 * TicksPerHour
        THEN [withTotal EXCEPT !.regularHours = @ + 8 * TicksPerHour,
                               !.overtimeHours = @ + 4 * TicksPerHour,
                               !.doubleTimeHours = @ + (dayHours - 12 * TicksPerHour)]
        ELSE IF dayHours > 8 * TicksPerHour
        THEN [withTotal EXCEPT !.regularHours = @ + 8 * TicksPerHour,
                               !.overtimeHours = @ + (dayHours - 8 * TicksPerHour)]
        ELSE [withTotal EXCEPT !.regularHours = @ + dayHours]

RECURSIVE SumDays(_, _, _)
SumDays(acc, dates, tcs) ==
    IF dates = <<>> THEN acc
    ELSE SumDays(AddDay(acc, calculateDayHours(groupOf(tcs, Head(dates)))),
                 Tail(dates), tcs)

calculateSummary(tcs) == SumDays(ZeroSummary, dateKeys(tcs), tcs)

----------------------------------------------------------------------------
(* filterTimecards *)

periodStart(period, t) ==
    CASE period = "week" -> startOfWeek(t)
      [] period = "month" -> startOfMonth(t)

periodEnd(period, t) ==
    CASE period = "week" -> endOfWeek(t)
      [] period = "month" -> endOfMonth(t)

\* inPeriod comparing the timestamp instead of the attributed date
inPeriod_ByTimestamp(tc, startDate, endDate) ==
    tc.timestamp >= startDate /\ tc.timestamp <= endDate

\* the predicate of the period filter
inPeriod(tc, startDate, endDate) ==
    LET tcDate == parseISO(tc.date)
    IN  tcDate >= startDate /\ tcDate <= endDate

\* matchesQuery without lower-casing the query
matchesQuery_CaseSensitive(tc, query) ==
    \/ tc.job.has /\ includes(toLowerCase(tc.job.name), query)
    \/ tc.task.has /\ includes(toLowerCase(tc.task.name), query)
    \/ includes(toLowerCase(TypeChars(tc.type)), query)

\* the predicate of the search filter
matchesQuery(tc, query) ==
    \/ tc.job.has /\ includes(toLowerCase(tc.job.name), toLowerCase(query))
    \/ tc.task.has /\ includes(toLowerCase(tc.task.name), toLowerCase(query))
    \/ includes(toLowerCase(TypeChars(tc.type)), toLowerCase(query))

filterByPeriod(tcs, period, t) ==
    IF period \in {"week", "month"}
    THEN SelectSeq(tcs, LAMBDA tc : inPeriod(tc, periodStart(period, t), periodEnd(period, t)))
    ELSE tcs

filterByQuery(tcs, query) ==
    IF query # <<>>
    THEN SelectSeq(tcs, LAMBDA tc : matchesQuery(tc, query))
    ELSE tcs

\* the value handed to setFilteredTimecards and to calculateSummary
filtered(tcs, period, query, t) == filterByQuery(filterByPeriod(tcs, period, t), query)

----------------------------------------------------------------------------
(* getTimecardsByDate *)

\* compareDates sorting ascending
compareDates_Ascending(a, b) == DateOf(a) - DateOf(b)

\* comparator of the date sort; negative puts a first
compareDates(a, b) == DateOf(b) - DateOf(a)

\* comparator of the sort inside a day
compareTimestamps(a, b) == a.timestamp - b.timestamp

\* Array.prototype.sort is stable: insertion behind every element that does
\* not compare greater
RECURSIVE InsertByDate(_, _)
InsertByDate(x, s) ==
    IF s = <<>> THEN <<x>>
    ELSE IF compareDates(Head(s), x) <= 0 THEN <<Head(s)>> \o InsertByDate(x, Tail(s))
    ELSE <<x>> \o s

RECURSIVE sortDates(_)
sortDates(s) ==
    IF s = <<>> THEN <<>>
    ELSE InsertByDate(s[Len(s)], sortDates(SubSeq(s, 1, Len(s) - 1)))

RECURSIVE InsertByTimestamp(_, _)
InsertByTimestamp(x, s) ==
    IF s = <<>> THEN <<x>>
    ELSE IF compareTimestamps(Head(s), x) <= 0
         THEN <<Head(s)>> \o InsertByTimestamp(x, Tail(s))
    ELSE <<x>> \o s

RECURSIVE sortByTimestamp(_)
sortByTimestamp(s) ==
    IF s = <<>> THEN <<>>
    ELSE InsertByTimestamp(s[Len(s)], sortByTimestamp(SubSeq(s, 1, Len(s) - 1)))

\* workDay with the total taken from the array as it was before the sort
workDay_Unsorted(tcs, date) ==
    [date |-> date,
     timecards |-> sortByTimestamp(groupOf(tcs, date)),
     totalHours |-> calculateDayHours(groupOf(tcs, date))]

\* one element of the returned array.  grouped[date] is sorted in place
\* before calculateDayHours reads it.
workDay(tcs, date) ==
    LET sorted == sortByTimestamp(groupOf(tcs, date))
    IN  [date |-> date, timecards |-> sorted, totalHours |-> calculateDayHours(sorted)]

getTimecardsByDate(tcs) ==
    LET sortedDates == sortDates(dateKeys(tcs))
    IN  [i \in 1..Len(sortedDates) |-> workDay(tcs, sortedDates[i])]

----------------------------------------------------------------------------
(* Day status and the Submit button *)

\* getStatusChip testing hasSubmitted before hasApproved
getStatusChip_SubmittedFirst(tcs) ==
    LET hasSubmitted == \E i \in 1..Len(tcs) : tcs[i].status = "submitted"
        hasApproved == \E i \in 1..Len(tcs) : tcs[i].status = "approved"
    IN  IF hasSubmitted THEN "submitted"
        ELSE IF hasApproved THEN "approved"
        ELSE "draft"

getStatusChip(tcs) ==
    LET hasSubmitted == \E i \in 1..Len(tcs) : tcs[i].status = "submitted"
        hasApproved == \E i \in 1..Len(tcs) : tcs[i].status = "approved"
    IN  IF hasApproved THEN "approved"
        ELSE IF hasSubmitted THEN "submitted"
        ELSE "draft"

\* submitDisabled looking at approved events only
submitDisabled_ApprovedOnly(tcs) ==
    \E i \in 1..Len(tcs) : tcs[i].status = "approved"

\* the disabled prop of the Submit button of one day card
submitDisabled(tcs) ==
    \E i \in 1..Len(tcs) : tcs[i].status = "submitted" \/ tcs[i].status = "approved"

----------------------------------------------------------------------------
(* Inputs *)

Hours(h) == h * TicksPerHour
At(day, h) == day * TicksPerDay + Hours(h)

Tue == MonthFirstDay(2) - 1    \* Tuesday 31 January 2023
Wed == MonthFirstDay(2)        \* Wednesday 1 February 2023

Name_Roof == <<"R","o","o","f">>
Name_Dock == <<"D","o","c","k">>
Name_Out == <<"O","u","t">>

\* clock-ins and clock-outs of two days; the day totals they can produce
\* include 8 h, 9 h, 12 h and 13 h, and negative ones when a clock_out
\* precedes its clock_in in time
HoursUniverse ==
    { Event(1, Tue, At(Tue, 0), "clock_in", NoRef, NoRef, "draft"),
      Event(2, Tue, At(Tue, 8), "clock_out", NoRef, NoRef, "draft"),
      Event(3, Tue, At(Tue, 9), "clock_out", NoRef, NoRef, "draft"),
      Event(4, Tue, At(Tue, 12), "clock_out", NoRef, NoRef, "draft"),
      Event(5, Wed, At(Wed, 0), "clock_in", NoRef, NoRef, "draft"),
      Event(6, Wed, At(Wed, 13), "clock_out", NoRef, NoRef, "draft"),
      Event(7, Wed, At(Wed, 14), "clock_in", NoRef, NoRef, "draft"),
      Event(8, Wed, At(Wed, 8), "clock_out", NoRef, NoRef, "draft") }

\* events of two days in every approval status
StatusUniverse ==
    { Event(11, Tue, At(Tue, 1), "clock_in", Ref(Name_Roof), NoRef, "draft"),
      Event(12, Tue, At(Tue, 2), "clock_out", Ref(Name_Roof), NoRef, "submitted"),
      Event(13, Tue, At(Tue, 3), "clock_in", Ref(Name_Dock), NoRef, "approved"),
      Event(14, Wed, At(Wed, 1), "clock_in", Ref(Name_Dock), NoRef, "draft"),
      Event(15, Wed, At(Wed, 2), "clock_out", Ref(Name_Dock), NoRef, "submitted"),
      Event(16, Wed, At(Wed, 3), "clock_in", Ref(Name_Roof), NoRef, "approved") }

\* events dated on and next to the borders of the week 29 Jan .. 4 Feb and
\* of the months January and February, each with a timestamp on the other
\* side of the border, and with job / task present or absent
FilterUniverse ==
    { Event(21, 27, At(28, 9), "clock_in", Ref(Name_Roof), NoRef, "draft"),
      Event(22, 28, At(27, 9), "clock_out", NoRef, NoRef, "draft"),
      Event(23, 34, At(35, 9), "lunch_out", Ref(Name_Dock), Ref(Name_Roof), "draft"),
      Event(24, 35, At(34, 9), "lunch_in", NoRef, Ref(Name_Roof), "draft"),
      Event(25, 30, At(31, 9), "clock_in", Ref(Name_Out), NoRef, "draft"),
      Event(26, 31, At(30, 9), "lunch_in", Ref(Name_Dock), Ref(Name_Out), "draft"),
      Event(27, 0, At(1, 9), "clock_in", NoRef, NoRef, "draft"),
      Event(28, 58, At(59, 9), "clock_out", Ref(Name_Dock), NoRef, "draft") }

HalfPast(day, h) == At(day, h) + TicksPerHour \div 2

\* one day with a lunch break and a second clock-in / clock-out pair
LunchUniverse ==
    { Event(31, Tue, At(Tue, 8), "clock_in", NoRef, NoRef, "draft"),
      Event(32, Tue, At(Tue, 12), "lunch_out", NoRef, NoRef, "draft"),
      Event(33, Tue, HalfPast(Tue, 12), "lunch_in", NoRef, NoRef, "draft"),
      Event(34, Tue, HalfPast(Tue, 16), "clock_out", NoRef, NoRef, "draft"),
      Event(35, Tue, At(Tue, 17), "clock_in", NoRef, NoRef, "draft"),
      Event(36, Tue, At(Tue, 18), "clock_out", NoRef, NoRef, "draft") }

Periods == {"week", "month", "all"}

Queries == { <<>>, <<"O","U","T">>, <<"r","o">>, <<"_","i">> }

\* instants at which the filter runs: Tuesday 31 January 10:00, the first
\* instant of Sunday 29 January (= startOfWeek), the last tick of Saturday
\* 4 February (= endOfWeek, in February)
Now0 == At(Tue, 10)
Nows == { Now0, At(28, 0), At(35, 0) - 1 }

----------------------------------------------------------------------------
(* Job sites and tasks.  null is the record with id 0. *)

NullTask == [id |-> 0, name |-> <<>>]
Task(i, nm) == [id |-> i, name |-> nm]

\* distance is the field findNearbyJobs adds; -1 stands for "no such field"
NullJob == [id |-> 0, name |-> <<>>, address |-> <<>>, tasks |-> <<>>, distance |-> -1]
Job(i, nm, addr, ts) ==
    [id |-> i, name |-> nm, address |-> addr, tasks |-> ts, distance |-> -1]

NoSelection == [job |-> NullJob, task |-> NullTask]

NoJobDialog == [kind |-> "none", job |-> NullJob, task |-> NullTask]

\* JobSelectionScreen before it is mounted
JobsIdle ==
    /\ jobSites = <<>>
    /\ selectedJob = NullJob
    /\ selectedTask = NullTask
    /\ jobSearchQuery = <<>>
    /\ nearbyJobs = <<>>
    /\ savedSelection = NoSelection
    /\ jobCalls = {}
    /\ jobDialog = NoJobDialog
    /\ currentLocation = "none"
    /\ jobRefreshing = FALSE
    /\ jobAlert = "none"

ExportIdle ==
    /\ exporting = FALSE
    /\ exports = <<>>

\* PhotoViewer with its default props
PhotoIdle ==
    /\ photos = <<>>
    /\ selectedPhotoIndex = 0
    /\ currentIndex = 0
    /\ imageLoading = TRUE
    /\ photoShares = <<>>
    /\ photoAlert = "none"
    /\ lastPhotoOp = "none"

----------------------------------------------------------------------------
(* State *)

NoDialog == [kind |-> "none", date |-> 0]
SubmitDialog(date) == [kind |-> "submit", date |-> date]

\* the passive effect on [timecards, selectedPeriod, searchQuery]:
\* filterTimecards, which ends with calculateSummary(filtered)
FilterEffect(tcs, period, query) ==
    /\ filteredTimecards' = filtered(tcs, period, query, now)
    /\ summary' = calculateSummary(filtered(tcs, period, query, now))

\* const dailyTimecards = getTimecardsByDate() of the current render
dailyTimecards == getTimecardsByDate(filteredTimecards)

Idle ==
    /\ refreshing = FALSE
    /\ dialog = NoDialog
    /\ loads = <<>>
    /\ submits = <<>>
    /\ alerts = <<>>
    /\ newestResult = <<>>
    /\ ExportIdle
    /\ JobsIdle
    /\ PhotoIdle

\* the screen showing a loaded event list, nothing in flight
InitView ==
    /\ \/ timecards \in DistinctSeqs(HoursUniverse, MaxEvents) /\ now = Now0
       \/ timecards \in DistinctSeqs(StatusUniverse, MaxEvents) /\ now = Now0
       \/ timecards \in DistinctSeqs(FilterUniverse, MaxFilterEvents) /\ now \in Nows
    /\ store = timecards
    /\ searchQuery = <<>>
    /\ selectedPeriod = "week"
    /\ filteredTimecards = filtered(timecards, selectedPeriod, searchQuery, now)
    /\ summary = calculateSummary(filteredTimecards)
    /\ Idle

\* SegmentedButtons onValueChange
SetSelectedPeriod(p) ==
    /\ UNCHANGED <<newestResult, exportVars, jobVars, photoVars>>
    /\ p # selectedPeriod
    /\ selectedPeriod' = p
    /\ FilterEffect(timecards, p, searchQuery)
    /\ UNCHANGED <<store, timecards, searchQuery, refreshing, now, dialog,
                   loads, submits, alerts>>

\* Searchbar onChangeText
SetSearchQuery(q) ==
    /\ UNCHANGED <<newestResult, exportVars, jobVars, photoVars>>
    /\ q # searchQuery
    /\ searchQuery' = q
    /\ FilterEffect(timecards, selectedPeriod, q)
    /\ UNCHANGED <<store, timecards, selectedPeriod, refreshing, now, dialog,
                   loads, submits, alerts>>

\* the screen showing the events of one day with lunch breaks
InitDay ==
    /\ timecards \in DistinctSeqs(LunchUniverse, MaxEvents)
    /\ now = Now0
    /\ store = timecards
    /\ searchQuery = <<>>
    /\ selectedPeriod = "week"
    /\ filteredTimecards = filtered(timecards, selectedPeriod, searchQuery, now)
    /\ summary = calculateSummary(filteredTimecards)
    /\ Idle

NextView ==
    \/ \E p \in Periods : SetSelectedPeriod(p)
    \/ \E q \in Queries : SetSearchQuery(q)

SpecView == InitView /\ [][NextView]_vars

SpecDay == InitDay /\ [][NextView]_vars

----------------------------------------------------------------------------
(* The screen with its asynchronous calls *)

Statuses == {"draft", "submitted", "approved"}

\* the store at the moment the screen is mounted: a Tuesday in draft and a
\* Wednesday already submitted or approved, not in timestamp order
StoreInputs ==
    { << Event(2, Tue, At(Tue, 17), "clock_out", Ref(Name_Roof), NoRef, "draft"),
         Event(3, Wed, At(Wed, 8), "clock_in", Ref(Name_Dock), NoRef, st),
         Event(1, Tue, At(Tue, 8), "clock_in", Ref(Name_Roof), NoRef, "draft") >>
      : st \in {"submitted", "approved"} }

RemoveAt(s, i) == SubSeq(s, 1, i - 1) \o SubSeq(s, i + 1, Len(s))

\* Alert.alert of a result; the model remembers the last MaxAlerts of them
Alerted(a) ==
    LET all == Append(alerts, a)
    IN  IF Len(all) > MaxAlerts THEN Tail(all) ELSE all

\* a getTimecards() call: it will resolve with the events the store holds
\* when the call is issued
\* superseded is history: a call issued later has already resolved
LoadCall(data, fromRefresh) ==
    [data |-> data, refresh |-> fromRefresh, superseded |-> FALSE]

\* the calls in flight once call i has resolved: the calls issued before it
\* are superseded
AfterResolve(i) ==
    RemoveAt([k \in 1..Len(loads) |->
                 IF k < i THEN [loads[k] EXCEPT !.superseded = TRUE] ELSE loads[k]], i)

\* the state after the first render and its two mount effects:
\* loadTimecards() is in flight, filterTimecards() has run on no events
Init ==
    /\ store \in StoreInputs
    /\ timecards = <<>>
    /\ filteredTimecards = <<>>
    /\ searchQuery = <<>>
    /\ selectedPeriod = "week"
    /\ summary = ZeroSummary
    /\ refreshing = FALSE
    /\ now = Now0
    /\ dialog = NoDialog
    /\ loads = <<LoadCall(store, FALSE)>>
    /\ submits = <<>>
    /\ alerts = <<>>
    /\ newestResult = <<>>
    /\ ExportIdle
    /\ JobsIdle
    /\ PhotoIdle

\* loadTimecards, try branch: getTimecards() resolves, setTimecards, and the
\* effect on [timecards] filters and summarises; onRefresh then clears
\* refreshing
LoadResolve(i) ==
    /\ i \in 1..Len(loads)
    /\ timecards' = loads[i].data
    /\ FilterEffect(loads[i].data, selectedPeriod, searchQuery)
    /\ refreshing' = IF loads[i].refresh THEN FALSE ELSE refreshing
    /\ loads' = AfterResolve(i)
    /\ newestResult' = IF loads[i].superseded THEN newestResult ELSE loads[i].data
    /\ UNCHANGED <<store, searchQuery, selectedPeriod, now, dialog, submits, alerts,
                   exportVars, jobVars, photoVars>>

\* LoadReject emptying the list it could not reload
LoadReject_ClearsView(i) ==
    /\ UNCHANGED <<newestResult, exportVars, jobVars, photoVars>>
    /\ i \in 1..Len(loads)
    /\ alerts' = Alerted("load_error")
    /\ timecards' = <<>>
    /\ FilterEffect(<<>>, selectedPeriod, searchQuery)
    /\ refreshing' = IF loads[i].refresh THEN FALSE ELSE refreshing
    /\ loads' = RemoveAt(loads, i)
    /\ UNCHANGED <<store, searchQuery, selectedPeriod, now, dialog, submits>>

\* loadTimecards, catch branch: getTimecards() rejects
LoadReject(i) ==
    /\ UNCHANGED <<newestResult, exportVars, jobVars, photoVars>>
    /\ i \in 1..Len(loads)
    /\ alerts' = Alerted("load_error")
    /\ refreshing' = IF loads[i].refresh THEN FALSE ELSE refreshing
    /\ loads' = RemoveAt(loads, i)
    /\ UNCHANGED <<store, timecards, filteredTimecards, searchQuery, selectedPeriod,
                   summary, now, dialog, submits>>

\* onRefresh up to its await; RefreshControl does not fire while refreshing
OnRefresh ==
    /\ UNCHANGED <<newestResult, exportVars, jobVars, photoVars>>
    /\ ~refreshing
    /\ Len(loads) < MaxLoads
    /\ refreshing' = TRUE
    /\ loads' = Append(loads, LoadCall(store, TRUE))
    /\ UNCHANGED <<store, timecards, filteredTimecards, searchQuery, selectedPeriod,
                   summary, now, dialog, submits, alerts>>

\* the Submit button of the card of one work day: submitForApproval(date)
\* opens the confirmation dialog
PressSubmit(k) ==
    /\ UNCHANGED <<newestResult, exportVars, jobVars, photoVars>>
    /\ dialog = NoDialog
    /\ k \in 1..Len(dailyTimecards)
    /\ ~submitDisabled(dailyTimecards[k].timecards)
    /\ dialog' = SubmitDialog(dailyTimecards[k].date)
    /\ UNCHANGED <<store, timecards, filteredTimecards, searchQuery, selectedPeriod,
                   summary, refreshing, now, loads, submits, alerts>>

\* the Cancel button of the dialog
CancelSubmit ==
    /\ UNCHANGED <<newestResult, exportVars, jobVars, photoVars>>
    /\ dialog.kind = "submit"
    /\ dialog' = NoDialog
    /\ UNCHANGED <<store, timecards, filteredTimecards, searchQuery, selectedPeriod,
                   summary, refreshing, now, loads, submits, alerts>>

\* the Submit button of the dialog, up to the first await:
\* TimeclockService.submitForApproval(date) is issued
ConfirmSubmit ==
    /\ UNCHANGED <<newestResult, exportVars, jobVars, photoVars>>
    /\ dialog.kind = "submit"
    /\ Len(submits) < MaxSubmits
    /\ submits' = Append(submits, dialog.date)
    /\ dialog' = NoDialog
    /\ UNCHANGED <<store, timecards, filteredTimecards, searchQuery, selectedPeriod,
                   summary, refreshing, now, loads, alerts>>

\* TimeclockService.submitForApproval: the date is free for submission
Submittable(date) ==
    ~\E i \in 1..Len(store) :
        store[i].date = date /\ store[i].status \in {"submitted", "approved"}

\* TimeclockService.submitForApproval: the events of the date become submitted
MarkSubmitted(date) ==
    [i \in 1..Len(store) |->
        IF store[i].date = date THEN [store[i] EXCEPT !.status = "submitted"] ELSE store[i]]

\* the call resolves: success alert, then loadTimecards() is started
SubmitResolve(i) ==
    /\ UNCHANGED <<newestResult, exportVars, jobVars, photoVars>>
    /\ i \in 1..Len(submits)
    /\ Submittable(submits[i])
    /\ Len(loads) < MaxLoads
    /\ store' = MarkSubmitted(submits[i])
    /\ alerts' = Alerted("submit_success")
    /\ loads' = Append(loads, LoadCall(store', FALSE))
    /\ submits' = RemoveAt(submits, i)
    /\ UNCHANGED <<timecards, filteredTimecards, searchQuery, selectedPeriod,
                   summary, refreshing, now, dialog>>

\* SubmitReject swallowing the error
SubmitReject_Silent(i) ==
    /\ UNCHANGED <<newestResult, exportVars, jobVars, photoVars>>
    /\ i \in 1..Len(submits)
    /\ submits' = RemoveAt(submits, i)
    /\ UNCHANGED <<store, timecards, filteredTimecards, searchQuery, selectedPeriod,
                   summary, refreshing, now, dialog, loads, alerts>>

\* SubmitReject reloading after the error alert
SubmitReject_Reloads(i) ==
    /\ UNCHANGED <<newestResult, exportVars, jobVars, photoVars>>
    /\ i \in 1..Len(submits)
    /\ Len(loads) < MaxLoads
    /\ alerts' = Alerted("submit_error")
    /\ loads' = Append(loads, LoadCall(store, FALSE))
    /\ submits' = RemoveAt(submits, i)
    /\ UNCHANGED <<store, timecards, filteredTimecards, searchQuery, selectedPeriod,
                   summary, refreshing, now, dialog>>

\* the call rejects (conflict or any other failure): error alert
SubmitReject(i) ==
    /\ UNCHANGED <<newestResult, exportVars, jobVars, photoVars>>
    /\ i \in 1..Len(submits)
    /\ alerts' = Alerted("submit_error")
    /\ submits' = RemoveAt(submits, i)
    /\ UNCHANGED <<store, timecards, filteredTimecards, searchQuery, selectedPeriod,
                   summary, refreshing, now, dialog, loads>>

\* the supervisor's system approves a submitted day
Approve(date) ==
    /\ UNCHANGED <<newestResult, exportVars, jobVars, photoVars>>
    /\ \E i \in 1..Len(store) : store[i].date = date /\ store[i].status = "submitted"
    /\ store' = [i \in 1..Len(store) |->
                    IF store[i].date = date /\ store[i].status = "submitted"
                    THEN [store[i] EXCEPT !.status = "approved"] ELSE store[i]]
    /\ UNCHANGED <<timecards, filteredTimecards, searchQuery, selectedPeriod, summary,
                   refreshing, now, dialog, loads, submits, alerts>>

Next ==
    \/ \E i \in 1..MaxLoads : LoadResolve(i)
    \/ \E i \in 1..MaxLoads : LoadReject(i)
    \/ OnRefresh
    \/ \E p \in Periods : SetSelectedPeriod(p)
    \/ \E q \in {<<>>, <<"r","o">>} : SetSearchQuery(q)
    \/ \E k \in 1..MaxEvents : PressSubmit(k)
    \/ CancelSubmit
    \/ ConfirmSubmit
    \/ \E i \in 1..MaxSubmits : SubmitResolve(i)
    \/ \E i \in 1..MaxSubmits : SubmitReject(i)
    \/ \E d \in {Tue, Wed} : Approve(d)

Spec == Init /\ [][Next]_vars

----------------------------------------------------------------------------
(* Properties of the hours summary *)

\* the day totals calculateSummary receives for the dates of a list
DayTotal(tcs, date) == calculateDayHours(groupOf(tcs, date))
DatesOf(tcs) == {tcs[i].date : i \in 1..Len(tcs)}

Buckets(sm) == <<sm.regularHours, sm.overtimeHours, sm.doubleTimeHours>>

\* the three tiers as the specification states them
Tier(h) ==
    IF h <= Hours(8) THEN <<h, 0, 0>>
    ELSE IF h <= Hours(12) THEN <<Hours(8), h - Hours(8), 0>>
    ELSE <<Hours(8), Hours(4), h - Hours(12)>>

\* what one more day of h hours adds to the buckets of the stored summary
Contribution(h) ==
    LET after == AddDay(summary, h)
    IN  <<after.regularHours - summary.regularHours,
          after.overtimeHours - summary.overtimeHours,
          after.doubleTimeHours - summary.doubleTimeHours>>

\* C1: every non-negative day total of the filtered events contributes to
\* the buckets by the three tiers (h <= 8: (h,0,0); 8 < h <= 12: (8,h-8,0);
\* h > 12: (8,4,h-12)), and the summary of a single such day is its tier.
Thm_C1_Tiers ==
    \A d \in DatesOf(filteredTimecards) :
        LET h == DayTotal(filteredTimecards, d)
        IN  h >= 0 =>
              /\ Contribution(h) = Tier(h)
              /\ DatesOf(filteredTimecards) = {d} => Buckets(summary) = Tier(h)

\* a single day of exactly 12 h is shown as (8, 4, 0)
Wit_C1_Tiers ==
    /\ selectedPeriod = "all"
    /\ \E d \in DatesOf(filteredTimecards) :
          /\ DatesOf(filteredTimecards) = {d}
          /\ DayTotal(filteredTimecards, d) = Hours(12)
    /\ Buckets(summary) = <<Hours(8), Hours(4), 0>>

\* C2: when every day total of the filtered events is non-negative, the
\* stored summary has regular + overtime + doubleTime = total and its four
\* values are non-negative.
Thm_C2_SumIsTotal ==
    (\A d \in DatesOf(filteredTimecards) : DayTotal(filteredTimecards, d) >= 0) =>
        /\ summary.regularHours + summary.overtimeHours + summary.doubleTimeHours
               = summary.totalHours
        /\ summary.totalHours >= 0
        /\ summary.regularHours >= 0
        /\ summary.overtimeHours >= 0
        /\ summary.doubleTimeHours >= 0

\* two days, one in the overtime tier and one in the double-time tier
Wit_C2_SumIsTotal ==
    /\ selectedPeriod = "all"
    /\ \E d1, d2 \in DatesOf(filteredTimecards) :
          /\ DayTotal(filteredTimecards, d1) = Hours(9)
          /\ DayTotal(filteredTimecards, d2) = Hours(13)
    /\ summary.totalHours = Hours(22)

PlusSummary(a, b) ==
    [totalHours |-> a.totalHours + b.totalHours,
     regularHours |-> a.regularHours + b.regularHours,
     overtimeHours |-> a.overtimeHours + b.overtimeHours,
     doubleTimeHours |-> a.doubleTimeHours + b.doubleTimeHours]

\* bucket-wise sum of the summaries of the single days, over the set of dates
RECURSIVE SumOverDates(_, _)
SumOverDates(dates, tcs) ==
    IF dates = {} THEN ZeroSummary
    ELSE LET d == CHOOSE x \in dates : TRUE
         IN  PlusSummary(calculateSummary(groupOf(tcs, d)), SumOverDates(dates \ {d}, tcs))

\* the same events with the days in the opposite order of first appearance
DaysReversed(tcs) ==
    LET keys == Reverse(dateKeys(tcs))
    IN  Flatten([i \in 1..Len(keys) |-> groupOf(tcs, keys[i])])

\* C3: the stored summary is the bucket-wise sum of the summaries of the
\* single days of the filtered events, and visiting the days in the
\* opposite order gives the same summary.
Thm_C3_Additive ==
    /\ summary = SumOverDates(DatesOf(filteredTimecards), filteredTimecards)
    /\ calculateSummary(DaysReversed(filteredTimecards)) = summary

\* day totals 9 h and 13 h give regular 16, overtime 5, doubleTime 1
Wit_C3_Additive ==
    /\ selectedPeriod = "all"
    /\ \E d1, d2 \in DatesOf(filteredTimecards) :
          /\ DayTotal(filteredTimecards, d1) = Hours(9)
          /\ DayTotal(filteredTimecards, d2) = Hours(13)
    /\ Buckets(summary) = <<Hours(16), Hours(5), Hours(1)>>

----------------------------------------------------------------------------
(* Properties of the grouping into work days *)

Count(s, x) == Cardinality({i \in 1..Len(s) : s[i] = x})

\* C4: the work days are one per distinct date of the filtered events, in
\* strictly descending date order, each with its events in ascending
\* timestamp order.
Thm_C4_DayOrder ==
    LET days == dailyTimecards
    IN  /\ {days[i].date : i \in 1..Len(days)} = DatesOf(filteredTimecards)
        /\ Len(days) = Cardinality(DatesOf(filteredTimecards))
        /\ \A i, j \in 1..Len(days) : i < j => days[i].date > days[j].date
        /\ \A k \in 1..Len(days) :
              \A i, j \in 1..Len(days[k].timecards) :
                  i < j => days[k].timecards[i].timestamp <= days[k].timecards[j].timestamp

\* the filtered events name the earlier date first and hold a later event
\* before an earlier one of the same day
Wit_C4_DayOrder ==
    /\ selectedPeriod = "all"
    /\ Len(dailyTimecards) = 2
    /\ filteredTimecards # <<>>
    /\ filteredTimecards[1].date = dailyTimecards[2].date
    /\ \E i, j \in 1..Len(filteredTimecards) :
          /\ i < j
          /\ filteredTimecards[i].date = filteredTimecards[j].date
          /\ filteredTimecards[i].timestamp > filteredTimecards[j].timestamp

\* C5: the events of all work days together are the filtered events, each
\* exactly as often as it is there, every event is in the work day of its
\* own date, and no filtered events give no work days.
Thm_C5_Permutation ==
    LET days == dailyTimecards
        all == Flatten([k \in 1..Len(days) |-> days[k].timecards])
    IN  /\ Len(all) = Len(filteredTimecards)
        /\ \A x \in Range(all) \cup Range(filteredTimecards) :
              Count(all, x) = Count(filteredTimecards, x)
        /\ \A k \in 1..Len(days) :
              \A i \in 1..Len(days[k].timecards) : days[k].timecards[i].date = days[k].date
        /\ filteredTimecards = <<>> => days = <<>>

\* two days of two events each, interleaved in the filtered list
Wit_C5_Permutation ==
    /\ selectedPeriod = "all"
    /\ Len(filteredTimecards) = 4
    /\ Len(dailyTimecards) = 2
    /\ filteredTimecards[1].date # filteredTimecards[2].date
    /\ Len(dailyTimecards[1].timecards) = 2

----------------------------------------------------------------------------
(* Properties of the filter *)

\* the days of the calendar week / month that contains instant t
WeekDays(t) == LET first == DayOf(t) - (DayOf(t) % 7) IN first..(first + 6)
MonthDays(t) ==
    LET m == MonthOfDay(DayOf(t))
    IN  MonthFirstDay(m)..(MonthFirstDay(m) + DaysInMonth[m] - 1)

InWindow(tc) ==
    CASE selectedPeriod = "week" -> tc.date \in WeekDays(now)
      [] selectedPeriod = "month" -> tc.date \in MonthDays(now)
      [] OTHER -> TRUE

\* str contains q when case is ignored, character by character
ContainsIgnoringCase(str, q) ==
    \E i \in 0..(Len(str) - Len(q)) :
        \A k \in 1..Len(q) : LowerChar(str[i + k]) = LowerChar(q[k])

QueryHits(tc) ==
    \/ tc.job.has /\ ContainsIgnoringCase(tc.job.name, searchQuery)
    \/ tc.task.has /\ ContainsIgnoringCase(tc.task.name, searchQuery)
    \/ ContainsIgnoringCase(TypeChars(tc.type), searchQuery)

Retained(tc) == tc \in Range(filteredTimecards)

\* C6: with period week or month, an event that passes the text filter is
\* retained if and only if its attributed date is one of the days of the
\* calendar week / month containing now, first and last day included,
\* whatever its timestamp is.
Thm_C6_ClosedWindow ==
    selectedPeriod \in {"week", "month"} =>
        \A tc \in Range(timecards) :
            Retained(tc) <=>
                /\ InWindow(tc)
                /\ searchQuery = <<>> \/ matchesQuery(tc, searchQuery)

\* events dated on the first and on the last day of the week are retained
\* although their timestamps lie outside the week
Wit_C6_ClosedWindow ==
    /\ searchQuery = <<"O","U","T">>
    /\ selectedPeriod = "week"
    /\ \E a, b \in Range(filteredTimecards) :
          /\ parseISO(a.date) = startOfWeek(now)
          /\ a.timestamp < startOfWeek(now)
          /\ b.date = DayOf(endOfWeek(now))
          /\ b.timestamp > endOfWeek(now)

\* C7: with a non-empty query, an event inside the period is retained if
\* and only if the query is, ignoring case, a substring of its job name
\* (job present), of its task name (task present) or of its event kind;
\* with an empty query the text filter removes nothing.
Thm_C7_SearchAnyField ==
    \A tc \in Range(timecards) :
        Retained(tc) <=>
            /\ InWindow(tc)
            /\ searchQuery = <<>> \/ QueryHits(tc)

\* an upper-case query retains an event without job and task through its
\* event kind alone, and a lower-case query retains one through its task only
Wit_C7_SearchAnyField ==
    \/ /\ searchQuery = <<"O","U","T">>
       /\ \E tc \in Range(filteredTimecards) : ~tc.job.has /\ ~tc.task.has
       /\ \E tc \in Range(timecards) : ~Retained(tc) /\ InWindow(tc)
    \/ /\ searchQuery = <<"r","o">>
       /\ \E tc \in Range(filteredTimecards) :
             /\ ~tc.job.has /\ tc.task.has
             /\ ~ContainsIgnoringCase(TypeChars(tc.type), searchQuery)
       /\ \E tc \in Range(timecards) : ~Retained(tc) /\ InWindow(tc)

----------------------------------------------------------------------------
(* Properties of the day status *)

StatusesOf(tcs) == {tcs[i].status : i \in 1..Len(tcs)}

\* C8: the status shown for a work day is approved if one of its events is
\* approved, otherwise submitted if one of its events is submitted,
\* otherwise draft.
Thm_C8_StatusPrecedence ==
    \A k \in 1..Len(dailyTimecards) :
        LET st == StatusesOf(dailyTimecards[k].timecards)
            shown == getStatusChip(dailyTimecards[k].timecards)
        IN  /\ "approved" \in st => shown = "approved"
            /\ "approved" \notin st /\ "submitted" \in st => shown = "submitted"
            /\ "approved" \notin st /\ "submitted" \notin st => shown = "draft"

\* a day whose submitted event comes before its approved event shows approved
Wit_C8_StatusPrecedence ==
    selectedPeriod = "all" /\ \E k \in 1..Len(dailyTimecards) :
        LET tcs == dailyTimecards[k].timecards
        IN  /\ Len(tcs) >= 2
            /\ tcs[1].status = "submitted"
            /\ tcs[Len(tcs)].status = "approved"
            /\ getStatusChip(tcs) = "approved"

----------------------------------------------------------------------------
(* Properties of the submission workflow *)

\* no displayed event of the date is submitted or approved
FreeToSubmit(date) ==
    ~\E tc \in Range(filteredTimecards) :
        tc.date = date /\ tc.status \in {"submitted", "approved"}

\* C9: the Submit button of a work day is enabled if and only if no
\* displayed event of its date is submitted or approved, so the button of a
\* day shown as submitted or approved is disabled; and the confirmation
\* dialog of a date opens only from a state in which the date is free.
Thm_C9_SubmitGuard ==
    /\ [](\A k \in 1..Len(dailyTimecards) :
            LET day == dailyTimecards[k]
            IN  /\ ~submitDisabled(day.timecards) <=> FreeToSubmit(day.date)
                /\ getStatusChip(day.timecards) \in {"submitted", "approved"}
                       => submitDisabled(day.timecards))
    /\ [][dialog.kind = "none" /\ dialog'.kind = "submit" => FreeToSubmit(dialog'.date)]_vars

\* after a submission and its reload one displayed day is pending with its
\* button disabled, next to an approved day and with no draft day left
Wit_C9_SubmitGuard ==
    /\ Len(dailyTimecards) = 2
    /\ \E k \in 1..2 :
          /\ getStatusChip(dailyTimecards[k].timecards) = "submitted"
          /\ dailyTimecards[k].date = Tue
          /\ submitDisabled(dailyTimecards[k].timecards)
    /\ \E i \in 1..Len(alerts) : alerts[i] = "submit_success"

\* C10: no two submission calls for the same date are in flight at the
\* same time.
Cex_C10_OneSubmitInFlight ==
    \A i, j \in 1..Len(submits) : i # j => submits[i] # submits[j]

\* a loaded event of the date is submitted or approved
HeldAsSubmitted(date) ==
    \E tc \in Range(timecards) :
        tc.date = date /\ tc.status \in {"submitted", "approved"}

\* C11: when the dialog is confirmed, the call is issued only if no event
\* of the date in the timecards held at that moment is submitted or approved.
Cex_C11_GuardRechecked ==
    [][Len(submits') > Len(submits) => ~HeldAsSubmitted(dialog.date)]_vars

\* a step in which one submission call completes
SubmitCompletes == Len(submits') < Len(submits)

\* C12: a submission call for a date that the store already holds as
\* submitted or approved does not succeed: the store keeps its statuses, no
\* reload is started and an error alert is shown.
Thm_C12_SecondSubmitFails ==
    [][SubmitCompletes =>
         \A i \in 1..Len(submits) :
             submits' = RemoveAt(submits, i) /\ ~Submittable(submits[i]) =>
                 /\ store' = store
                 /\ loads' = loads
                 /\ alerts' = Alerted("submit_error")]_vars

\* the day was submitted, the reload has shown it, and a later call for it
\* has ended with the error alert
Wit_C12_SecondSubmitFails ==
    /\ HeldAsSubmitted(Tue)
    /\ ~Submittable(Tue)
    /\ submits = <<>>
    /\ loads = <<>>
    /\ alerts = <<"submit_error">>
    /\ dialog = NoDialog

View == <<timecards, filteredTimecards, summary>>

\* C13: issuing a submission leaves the view and the loads alone; a
\* completing submission leaves the view alone and starts a reload of the
\* store exactly when it succeeded, otherwise it shows the error alert; the
\* view changes only when a load completes or the filter controls change.
Thm_C13_AwaitBeforeUpdate ==
    [][/\ Len(submits') > Len(submits) => View' = View /\ loads' = loads
       /\ SubmitCompletes =>
             /\ View' = View
             /\ IF store' # store
                THEN /\ loads' = Append(loads, LoadCall(store', FALSE))
                     /\ alerts' = Alerted("submit_success")
                ELSE /\ loads' = loads
                     /\ alerts' = Alerted("submit_error")
       /\ View' # View =>
             \/ Len(loads') < Len(loads)
             \/ selectedPeriod' # selectedPeriod
             \/ searchQuery' # searchQuery]_vars

\* a submission of the draft day has failed: the day is still shown as
\* draft, the error alert is up and nothing is in flight
Wit_C13_AwaitBeforeUpdate ==
    /\ timecards # <<>>
    /\ ~HeldAsSubmitted(Tue)
    /\ Submittable(Tue)
    /\ alerts = <<"submit_error">>
    /\ submits = <<>>
    /\ loads = <<>>

\* C14: a completing load either installs the fetched events or, when the
\* fetch failed, shows the load-failure alert and leaves timecards,
\* filteredTimecards and summary as they were.
Thm_C14_FailedLoadKeepsView ==
    [][Len(loads') < Len(loads) =>
         \E i \in 1..Len(loads) :
             \/ /\ loads' = AfterResolve(i)
                /\ timecards' = loads[i].data
                /\ filteredTimecards' = filtered(timecards', selectedPeriod, searchQuery, now)
                /\ alerts' = alerts
             \/ /\ loads' = RemoveAt(loads, i)
                /\ alerts' = Alerted("load_error")
                /\ View' = View]_vars

\* a refresh has failed after a successful load: the events are still shown
Wit_C14_FailedLoadKeepsView ==
    /\ alerts = <<"load_error">>
    /\ timecards # <<>>
    /\ filteredTimecards # <<>>
    /\ loads = <<>>
    /\ ~refreshing

\* C19: once all overlapping loads have completed, timecards holds the
\* result of the fetch that was issued last among those that resolved.
Cex_C19_LatestFetchWins ==
    loads = <<>> => timecards = newestResult

----------------------------------------------------------------------------
(* Export *)

ExportChoices == {"CSV", "JSON", "HTML Report"}

\* the format each button of the Export Format dialog hands to performExport
FormatOf(choice) ==
    CASE choice = "CSV" -> "csv"
      [] choice = "JSON" -> "json"
      [] choice = "HTML Report" -> "pdf"

ExportDialog == [kind |-> "export", date |-> 0]

\* a call ExportService.exportTimecardData(filteredTimecards, { format })
ExportCall(format) == [format |-> format, records |-> filteredTimecards]

\* the screen showing the loaded events, nothing in flight
InitExport ==
    /\ timecards \in StoreInputs
    /\ now = Now0
    /\ store = timecards
    /\ searchQuery = <<>>
    /\ selectedPeriod = "week"
    /\ filteredTimecards = filtered(timecards, selectedPeriod, searchQuery, now)
    /\ summary = calculateSummary(filteredTimecards)
    /\ Idle

\* FAB onPress: exportData shows the Export Format dialog
ExportData ==
    /\ dialog = NoDialog
    /\ dialog' = ExportDialog
    /\ UNCHANGED <<store, timecards, filteredTimecards, searchQuery, selectedPeriod,
                   summary, refreshing, now, loads, submits, alerts,
                   newestResult, exportVars, jobVars, photoVars>>

\* the Cancel button of the Export Format dialog
CancelExport ==
    /\ dialog = ExportDialog
    /\ dialog' = NoDialog
    /\ UNCHANGED <<store, timecards, filteredTimecards, searchQuery, selectedPeriod,
                   summary, refreshing, now, loads, submits, alerts,
                   newestResult, exportVars, jobVars, photoVars>>

\* a format button of the dialog: performExport up to its await
performExport(format) ==
    /\ Len(exports) < MaxExports
    /\ exporting' = TRUE
    /\ exports' = Append(exports, ExportCall(format))

ChooseExport(choice) ==
    /\ dialog = ExportDialog
    /\ dialog' = NoDialog
    /\ performExport(FormatOf(choice))
    /\ UNCHANGED <<store, timecards, filteredTimecards, searchQuery, selectedPeriod,
                   summary, refreshing, now, loads, submits, alerts,
                   newestResult, jobVars, photoVars>>

\* exportTimecardData resolves: Success alert, then finally
ExportResolve(i) ==
    /\ i \in 1..Len(exports)
    /\ exports' = RemoveAt(exports, i)
    /\ alerts' = Alerted("export_success")
    /\ exporting' = FALSE
    /\ UNCHANGED <<store, timecards, filteredTimecards, searchQuery, selectedPeriod,
                   summary, refreshing, now, dialog, loads, submits,
                   newestResult, jobVars, photoVars>>

\* exportTimecardData rejects: Error alert, then finally
ExportReject(i) ==
    /\ i \in 1..Len(exports)
    /\ exports' = RemoveAt(exports, i)
    /\ alerts' = Alerted("export_error")
    /\ exporting' = FALSE
    /\ UNCHANGED <<store, timecards, filteredTimecards, searchQuery, selectedPeriod,
                   summary, refreshing, now, dialog, loads, submits,
                   newestResult, jobVars, photoVars>>

NextExport ==
    \/ \E p \in Periods : SetSelectedPeriod(p)
    \/ ExportData
    \/ CancelExport
    \/ \E choice \in ExportChoices : ChooseExport(choice)
    \/ \E i \in 1..MaxExports : ExportResolve(i)
    \/ \E i \in 1..MaxExports : ExportReject(i)

SpecExport == InitExport /\ [][NextExport]_vars

\* C18: every call to the export interface carries one of the format
\* selectors csv, json, report.
Cex_C18_ExportFormats ==
    \A i \in 1..Len(exports) : exports[i].format \in {"csv", "json", "report"}

----------------------------------------------------------------------------
(* JobSelectionScreen *)

NearbyLimit == 1000     \* metres: distance <= 1000

Name_Pier == <<"P","i","e","r">>
Name_Hill == <<"H","i","l","l">>
Name_Weld == <<"W","e","l","d">>
Name_Lift == <<"L","i","f","t">>

\* the job sites LocationService.getJobSites() returns; the first has no tasks
JobCatalogue ==
    << Job(2, Name_Dock, Name_Pier, <<>>),
       Job(1, Name_Roof, Name_Hill, <<Task(1, Name_Weld), Task(2, Name_Lift)>>) >>

Locations == {"yard"}

\* LocationService.calculateDistance from a device location to a job site,
\* in tenths of a metre
DistanceTo(loc, job) ==
    CASE loc = "yard" /\ job.id = 1 -> NearbyLimit * 10 + 4
      [] loc = "yard" /\ job.id = 2 -> 4004

\* Math.round of a distance given in tenths of a metre
Round(d) == (d + 5) \div 10

JobQueries == { <<>>, <<"R","O">> }

\* what AsyncStorage holds when the screen is mounted
SavedInputs == { NoSelection, [job |-> JobCatalogue[2], task |-> Task(2, Name_Lift)] }

JobCall(kind, fromRefresh, loc, job, task) ==
    [kind |-> kind, refresh |-> fromRefresh, loc |-> loc, job |-> job, task |-> task]

\* loadJobSites(); loc is the currentLocation an onRefresh has captured
SitesCall(fromRefresh, loc) == JobCall("sites", fromRefresh, loc, NullJob, NullTask)
LocationCall == JobCall("location", FALSE, "none", NullJob, NullTask)
NearbyCall(fromRefresh, loc) == JobCall("nearby", fromRefresh, loc, NullJob, NullTask)
SavedCall == JobCall("saved", FALSE, "none", NullJob, NullTask)
SaveCall(job, task) == JobCall("save", FALSE, "none", job, task)

Saves == {c \in jobCalls : c.kind = "save"}

\* the jobs shown as cards
filteredJobs ==
    SelectSeq(jobSites, LAMBDA job :
        \/ includes(toLowerCase(job.name), toLowerCase(jobSearchQuery))
        \/ includes(toLowerCase(job.address), toLowerCase(jobSearchQuery)))

compareDistance(a, b) == a.distance - b.distance

RECURSIVE InsertByDistance(_, _)
InsertByDistance(x, s) ==
    IF s = <<>> THEN <<x>>
    ELSE IF compareDistance(Head(s), x) <= 0
         THEN <<Head(s)>> \o InsertByDistance(x, Tail(s))
    ELSE <<x>> \o s

RECURSIVE sortByDistance(_)
sortByDistance(s) ==
    IF s = <<>> THEN <<>>
    ELSE InsertByDistance(s[Len(s)], sortByDistance(SubSeq(s, 1, Len(s) - 1)))

\* the array findNearbyJobs hands to setNearbyJobs
findNearbyJobs(jobs, loc) ==
    LET within == SelectSeq(jobs, LAMBDA job : DistanceTo(loc, job) <= NearbyLimit * 10)
    IN  sortByDistance([i \in 1..Len(within) |->
            [within[i] EXCEPT !.distance = Round(DistanceTo(loc, within[i]))]])

\* the chips shown: nearbyJobs.slice(0, 3)
nearbyChips == SubSeq(nearbyJobs, 1, IF Len(nearbyJobs) < 3 THEN Len(nearbyJobs) ELSE 3)

\* JobSelectionScreen after its mount effect has issued its three calls
InitJobs ==
    /\ store = <<>>
    /\ timecards = <<>>
    /\ filteredTimecards = <<>>
    /\ searchQuery = <<>>
    /\ selectedPeriod = "week"
    /\ summary = ZeroSummary
    /\ now = Now0
    /\ refreshing = FALSE
    /\ dialog = NoDialog
    /\ loads = <<>>
    /\ submits = <<>>
    /\ alerts = <<>>
    /\ newestResult = <<>>
    /\ ExportIdle
    /\ PhotoIdle
    /\ jobSites = <<>>
    /\ selectedJob = NullJob
    /\ selectedTask = NullTask
    /\ jobSearchQuery = <<>>
    /\ nearbyJobs = <<>>
    /\ savedSelection \in SavedInputs
    /\ jobCalls = {SitesCall(FALSE, "none"), LocationCall, SavedCall}
    /\ jobDialog = NoJobDialog
    /\ currentLocation = "none"
    /\ jobRefreshing = FALSE
    /\ jobAlert = "none"

\* what onRefresh does after its await loadJobSites()
AfterLoadJobSites(c) ==
    IF c.refresh /\ c.loc # "none"
    THEN /\ jobCalls' = (jobCalls \ {c}) \cup {NearbyCall(TRUE, c.loc)}
         /\ jobRefreshing' = jobRefreshing
    ELSE /\ jobCalls' = jobCalls \ {c}
         /\ jobRefreshing' = IF c.refresh THEN FALSE ELSE jobRefreshing

\* loadJobSites: getJobSites resolves
LoadJobSitesResolve(c) ==
    /\ c \in jobCalls /\ c.kind = "sites"
    /\ jobSites' = JobCatalogue
    /\ AfterLoadJobSites(c)
    /\ UNCHANGED <<timecardVars, exportVars, photoVars, selectedJob, selectedTask,
                   jobSearchQuery, nearbyJobs, savedSelection, jobDialog,
                   currentLocation, jobAlert>>

\* loadJobSites: getJobSites rejects
LoadJobSitesReject(c) ==
    /\ c \in jobCalls /\ c.kind = "sites"
    /\ jobAlert' = "sites_error"
    /\ AfterLoadJobSites(c)
    /\ UNCHANGED <<timecardVars, exportVars, photoVars, jobSites, selectedJob, selectedTask,
                   jobSearchQuery, nearbyJobs, savedSelection, jobDialog,
                   currentLocation>>

\* getCurrentLocation resolves and goes on to await findNearbyJobs(location)
GetCurrentLocationResolve(loc) ==
    /\ LocationCall \in jobCalls
    /\ currentLocation' = loc
    /\ jobCalls' = (jobCalls \ {LocationCall}) \cup {NearbyCall(FALSE, loc)}
    /\ UNCHANGED <<timecardVars, exportVars, photoVars, jobSites, selectedJob, selectedTask,
                   jobSearchQuery, nearbyJobs, savedSelection, jobDialog,
                   jobRefreshing, jobAlert>>

\* getCurrentLocation rejects: console.warn
GetCurrentLocationReject ==
    /\ LocationCall \in jobCalls
    /\ jobCalls' = jobCalls \ {LocationCall}
    /\ UNCHANGED <<timecardVars, exportVars, photoVars, jobSites, selectedJob, selectedTask,
                   jobSearchQuery, nearbyJobs, savedSelection, jobDialog,
                   currentLocation, jobRefreshing, jobAlert>>

\* findNearbyJobs: getJobSites resolves
FindNearbyJobsResolve(c) ==
    /\ c \in jobCalls /\ c.kind = "nearby"
    /\ nearbyJobs' = findNearbyJobs(JobCatalogue, c.loc)
    /\ jobCalls' = jobCalls \ {c}
    /\ jobRefreshing' = IF c.refresh THEN FALSE ELSE jobRefreshing
    /\ UNCHANGED <<timecardVars, exportVars, photoVars, jobSites, selectedJob, selectedTask,
                   jobSearchQuery, savedSelection, jobDialog, currentLocation,
                   jobAlert>>

\* findNearbyJobs: getJobSites rejects: console.error
FindNearbyJobsReject(c) ==
    /\ c \in jobCalls /\ c.kind = "nearby"
    /\ jobCalls' = jobCalls \ {c}
    /\ jobRefreshing' = IF c.refresh THEN FALSE ELSE jobRefreshing
    /\ UNCHANGED <<timecardVars, exportVars, photoVars, jobSites, selectedJob, selectedTask,
                   jobSearchQuery, nearbyJobs, savedSelection, jobDialog,
                   currentLocation, jobAlert>>

\* loadSavedSelection: getItem resolves
LoadSavedSelectionResolve ==
    /\ SavedCall \in jobCalls
    /\ jobCalls' = jobCalls \ {SavedCall}
    /\ IF savedSelection # NoSelection
       THEN /\ selectedJob' = savedSelection.job
            /\ selectedTask' = savedSelection.task
       ELSE UNCHANGED <<selectedJob, selectedTask>>
    /\ UNCHANGED <<timecardVars, exportVars, photoVars, jobSites, jobSearchQuery, nearbyJobs,
                   savedSelection, jobDialog, currentLocation, jobRefreshing,
                   jobAlert>>

\* loadSavedSelection: getItem rejects: console.error
LoadSavedSelectionReject ==
    /\ SavedCall \in jobCalls
    /\ jobCalls' = jobCalls \ {SavedCall}
    /\ UNCHANGED <<timecardVars, exportVars, photoVars, jobSites, selectedJob, selectedTask,
                   jobSearchQuery, nearbyJobs, savedSelection, jobDialog,
                   currentLocation, jobRefreshing, jobAlert>>

\* RefreshControl onRefresh, up to its await loadJobSites()
OnJobRefresh ==
    /\ ~jobRefreshing
    /\ jobRefreshing' = TRUE
    /\ jobCalls' = jobCalls \cup {SitesCall(TRUE, currentLocation)}
    /\ UNCHANGED <<timecardVars, exportVars, photoVars, jobSites, selectedJob, selectedTask,
                   jobSearchQuery, nearbyJobs, savedSelection, jobDialog,
                   currentLocation, jobAlert>>

\* Searchbar onChangeText
SetJobSearchQuery(q) ==
    /\ q # jobSearchQuery
    /\ jobSearchQuery' = q
    /\ UNCHANGED <<timecardVars, exportVars, photoVars, jobSites, selectedJob, selectedTask,
                   nearbyJobs, savedSelection, jobCalls, jobDialog,
                   currentLocation, jobRefreshing, jobAlert>>

\* handleJobSelect that leaves the task selection alone
handleJobSelect_KeepsTask(job) ==
    /\ selectedJob' = job
    /\ selectedTask' = selectedTask

handleJobSelect(job) ==
    /\ selectedJob' = job
    /\ selectedTask' = NullTask

handleTaskSelect(task) ==
    /\ selectedTask' = task
    /\ selectedJob' = selectedJob

\* a job card or a nearby chip is pressed
PressJob(job) ==
    /\ jobDialog = NoJobDialog
    /\ job \in Range(filteredJobs) \cup Range(nearbyChips)
    /\ handleJobSelect(job)
    /\ UNCHANGED <<timecardVars, exportVars, photoVars, jobSites, jobSearchQuery, nearbyJobs,
                   savedSelection, jobCalls, jobDialog, currentLocation,
                   jobRefreshing, jobAlert>>

\* an item of the task list, which the card of the selected job shows
PressTask(task) ==
    /\ jobDialog = NoJobDialog
    /\ \E job \in Range(filteredJobs) :
           selectedJob.id = job.id /\ task \in Range(job.tasks)
    /\ handleTaskSelect(task)
    /\ UNCHANGED <<timecardVars, exportVars, photoVars, jobSites, jobSearchQuery, nearbyJobs,
                   savedSelection, jobCalls, jobDialog, currentLocation,
                   jobRefreshing, jobAlert>>

\* confirmSelection; the disabled prop of its button only takes calls away
confirmSelection ==
    /\ jobDialog = NoJobDialog
    /\ IF selectedJob = NullJob
       THEN /\ jobAlert' = "no_job"
            /\ jobDialog' = jobDialog
       ELSE /\ jobDialog' = [kind |-> "confirm", job |-> selectedJob,
                             task |-> selectedTask]
            /\ jobAlert' = jobAlert
    /\ UNCHANGED <<timecardVars, exportVars, photoVars, jobSites, selectedJob, selectedTask,
                   jobSearchQuery, nearbyJobs, savedSelection, jobCalls,
                   currentLocation, jobRefreshing>>

\* the Cancel button of the Confirm Selection dialog
CancelSelection ==
    /\ jobDialog # NoJobDialog
    /\ jobDialog' = NoJobDialog
    /\ UNCHANGED <<timecardVars, exportVars, photoVars, jobSites, selectedJob, selectedTask,
                   jobSearchQuery, nearbyJobs, savedSelection, jobCalls,
                   currentLocation, jobRefreshing, jobAlert>>

\* the Confirm button of the dialog, up to its await setItem
ConfirmSelection ==
    /\ jobDialog # NoJobDialog
    /\ Cardinality(Saves) < MaxSaves
    /\ SaveCall(jobDialog.job, jobDialog.task) \notin jobCalls
    /\ jobCalls' = jobCalls \cup {SaveCall(jobDialog.job, jobDialog.task)}
    /\ jobDialog' = NoJobDialog
    /\ UNCHANGED <<timecardVars, exportVars, photoVars, jobSites, selectedJob, selectedTask,
                   jobSearchQuery, nearbyJobs, savedSelection, currentLocation,
                   jobRefreshing, jobAlert>>

\* setItem resolves
SaveResolve(c) ==
    /\ c \in Saves
    /\ savedSelection' = [job |-> c.job, task |-> c.task]
    /\ jobCalls' = jobCalls \ {c}
    /\ jobAlert' = "saved"
    /\ UNCHANGED <<timecardVars, exportVars, photoVars, jobSites, selectedJob, selectedTask,
                   jobSearchQuery, nearbyJobs, jobDialog, currentLocation,
                   jobRefreshing>>

\* setItem rejects
SaveReject(c) ==
    /\ c \in Saves
    /\ jobCalls' = jobCalls \ {c}
    /\ jobAlert' = "save_error"
    /\ UNCHANGED <<timecardVars, exportVars, photoVars, jobSites, selectedJob, selectedTask,
                   jobSearchQuery, nearbyJobs, savedSelection, jobDialog,
                   currentLocation, jobRefreshing>>

NextJobs ==
    \/ \E c \in jobCalls : LoadJobSitesResolve(c)
    \/ \E c \in jobCalls : LoadJobSitesReject(c)
    \/ \E loc \in Locations : GetCurrentLocationResolve(loc)
    \/ GetCurrentLocationReject
    \/ \E c \in jobCalls : FindNearbyJobsResolve(c)
    \/ \E c \in jobCalls : FindNearbyJobsReject(c)
    \/ LoadSavedSelectionResolve
    \/ LoadSavedSelectionReject
    \/ OnJobRefresh
    \/ \E q \in JobQueries : SetJobSearchQuery(q)
    \/ \E job \in Range(filteredJobs) \cup Range(nearbyChips) : PressJob(job)
    \/ \E job \in Range(jobSites) : \E task \in Range(job.tasks) : PressTask(task)
    \/ confirmSelection
    \/ CancelSelection
    \/ ConfirmSelection
    \/ \E c \in jobCalls : SaveResolve(c)
    \/ \E c \in jobCalls : SaveReject(c)

SpecJobs == InitJobs /\ [][NextJobs]_vars

TaskOfSelectedJob ==
    selectedTask = NullTask \/ selectedTask \in Range(selectedJob.tasks)

SavedSelectionLoaded == SavedCall \in jobCalls /\ SavedCall \notin jobCalls'

\* C20: the selected task is null or one of the tasks of the selected job;
\* a step that changes the selected job, other than the loading of the saved
\* selection, leaves no task selected, and a task is only ever replaced by
\* null or by a task of the job that stays selected; while no job is
\* selected no confirmation dialog opens, no save is issued and nothing is
\* stored, and what is stored always has a job.
Thm_C20_TaskOfSelectedJob ==
    /\ []TaskOfSelectedJob
    /\ [][ /\ (selectedJob' # selectedJob /\ ~SavedSelectionLoaded) =>
                  selectedTask' = NullTask
           /\ (selectedTask' # selectedTask /\ ~SavedSelectionLoaded) =>
                  \/ selectedTask' = NullTask
                  \/ /\ selectedJob' = selectedJob
                     /\ selectedTask' \in Range(selectedJob.tasks)
           /\ selectedJob = NullJob =>
                  /\ jobDialog' = NoJobDialog
                  /\ Saves' = {}
                  /\ savedSelection' = savedSelection
           /\ savedSelection' # savedSelection => savedSelection'.job # NullJob
         ]_vars

\* confirmSelection was called with no job selected and has stored nothing;
\* later job 1 and its task 1 were selected and confirmed, and then the
\* nearby chip of job 2 was pressed, which cleared the task
Wit_C20_TaskOfSelectedJob ==
    /\ jobAlert = "no_job"
    /\ savedSelection = NoSelection
    /\ \E c \in Saves : c.job.id = 1 /\ c.task = Task(1, Name_Weld)
    /\ selectedJob.id = 2
    /\ selectedJob.distance >= 0
    /\ selectedTask = NullTask

----------------------------------------------------------------------------
(* Properties of the day totals *)

\* C15: a negative day total adds nothing to the regular, overtime and
\* double-time amounts of the summary.
Cex_C15_NegativeRejected ==
    \A d \in DatesOf(filteredTimecards) :
        DayTotal(filteredTimecards, d) < 0 =>
            Contribution(DayTotal(filteredTimecards, d)) = <<0, 0, 0>>

\* the last event of the given kinds among the first i events of s, or 0
LastOf(s, i, kinds) ==
    LET ks == {k \in 1..i : s[k].type \in kinds}
    IN  IF ks = {} THEN 0 ELSE CHOOSE k \in ks : \A l \in ks : l <= k

\* clocked in after event i: the last clock event so far is a clock_in
ClockedInAfter(s, i) ==
    LET k == LastOf(s, i, {"clock_in", "clock_out"})
    IN  k > 0 /\ s[k].type = "clock_in"

\* on lunch after event i: the last lunch event since the last clock_out is
\* a lunch_out that follows a clock_in
OnLunchAfter(s, i) ==
    LET out == LastOf(s, i, {"clock_out"})
        ins == {k \in (out + 1)..i : s[k].type = "clock_in"}
        first == CHOOSE k \in ins : \A l \in ins : k <= l
        lunches == {k \in (first + 1)..i : s[k].type \in {"lunch_out", "lunch_in"}}
    IN  /\ ins # {}
        /\ lunches # {}
        /\ s[CHOOSE k \in lunches : \A l \in lunches : l <= k].type = "lunch_out"

\* the time between consecutive events counts when it is spent clocked in
\* and not on lunch and a lunch_out or clock_out follows
ClosedSpanHours(s) ==
    LET counts(i) ==
            /\ ClockedInAfter(s, i)
            /\ ~OnLunchAfter(s, i)
            /\ \E j \in (i + 1)..Len(s) : s[j].type \in {"lunch_out", "clock_out"}
    IN  SumSeq([i \in 1..(Len(s) - 1) |->
                   IF counts(i) THEN s[i + 1].timestamp - s[i].timestamp ELSE 0])

Cex_C17_SummaryMatchesDays ==
    summary.totalHours =
        SumSeq([k \in 1..Len(dailyTimecards) |-> dailyTimecards[k].totalHours])

----------------------------------------------------------------------------
(* PhotoViewer *)

Photo(i) == [id |-> i]

\* the photo lists a parent can hand over, the empty default included
PhotoLists == { [k \in 1..n |-> Photo(k)] : n \in 0..MaxPhotos }

\* photos[currentIndex]; indices count from 0 as in the code
currentPhoto == photos[currentIndex + 1]

\* PhotoViewer after construction with a start index inside the list
InitPhotos ==
    /\ store = <<>>
    /\ timecards = <<>>
    /\ filteredTimecards = <<>>
    /\ searchQuery = <<>>
    /\ selectedPeriod = "week"
    /\ summary = ZeroSummary
    /\ now = Now0
    /\ refreshing = FALSE
    /\ dialog = NoDialog
    /\ loads = <<>>
    /\ submits = <<>>
    /\ alerts = <<>>
    /\ newestResult = <<>>
    /\ ExportIdle
    /\ JobsIdle
    /\ photos \in PhotoLists
    /\ selectedPhotoIndex \in (IF photos = <<>> THEN {0} ELSE 0..(Len(photos) - 1))
    /\ currentIndex = selectedPhotoIndex
    /\ imageLoading = TRUE
    /\ photoShares = <<>>
    /\ photoAlert = "none"
    /\ lastPhotoOp = "none"

\* the component renders null, and so offers no handler, without photos
Rendered == photos # <<>>

\* navigatePhoto without its tests of the ends of the list
navigatePhoto_NoEnds(direction) ==
    /\ currentIndex' = IF direction = "next" THEN currentIndex + 1 ELSE currentIndex - 1
    /\ imageLoading' = TRUE

navigatePhoto(direction) ==
    IF direction = "next" /\ currentIndex < Len(photos) - 1
    THEN /\ currentIndex' = currentIndex + 1
         /\ imageLoading' = TRUE
    ELSE IF direction = "prev" /\ currentIndex > 0
    THEN /\ currentIndex' = currentIndex - 1
         /\ imageLoading' = TRUE
    ELSE UNCHANGED <<currentIndex, imageLoading>>

\* a call of navigatePhoto; the arrows, which are not shown at the ends of
\* the list, only take calls away
NavigatePhoto(direction) ==
    /\ Rendered
    /\ navigatePhoto(direction)
    /\ lastPhotoOp' = direction
    /\ UNCHANGED <<timecardVars, exportVars, jobVars, photos, selectedPhotoIndex,
                   photoShares, photoAlert>>

\* onPress of a thumbnail; the strip is shown for more than one photo
SelectThumbnail(index) ==
    /\ Rendered
    /\ Len(photos) > 1
    /\ index \in 0..(Len(photos) - 1)
    /\ currentIndex' = index
    /\ imageLoading' = TRUE
    /\ lastPhotoOp' = "thumbnail"
    /\ UNCHANGED <<timecardVars, exportVars, jobVars, photos, selectedPhotoIndex,
                   photoShares, photoAlert>>

\* Image onLoadStart
OnLoadStart ==
    /\ Rendered
    /\ imageLoading' = TRUE
    /\ lastPhotoOp' = "loadStart"
    /\ UNCHANGED <<timecardVars, exportVars, jobVars, photos, selectedPhotoIndex,
                   currentIndex, photoShares, photoAlert>>

\* Image onLoadEnd
OnLoadEnd ==
    /\ Rendered
    /\ imageLoading' = FALSE
    /\ lastPhotoOp' = "loadEnd"
    /\ UNCHANGED <<timecardVars, exportVars, jobVars, photos, selectedPhotoIndex,
                   currentIndex, photoShares, photoAlert>>

\* onPress of the share button, up to its first await
PressShare ==
    /\ Rendered
    /\ Len(photoShares) < MaxShares
    /\ photoShares' = Append(photoShares, currentPhoto)
    /\ lastPhotoOp' = "share"
    /\ UNCHANGED <<timecardVars, exportVars, jobVars, photos, selectedPhotoIndex,
                   currentIndex, imageLoading, photoAlert>>

\* sharing is available and shareAsync resolves
ShareResolve(i) ==
    /\ i \in 1..Len(photoShares)
    /\ photoShares' = RemoveAt(photoShares, i)
    /\ lastPhotoOp' = "shared"
    /\ UNCHANGED <<timecardVars, exportVars, jobVars, photos, selectedPhotoIndex,
                   currentIndex, imageLoading, photoAlert>>

\* isAvailableAsync resolves to false
ShareUnavailable(i) ==
    /\ i \in 1..Len(photoShares)
    /\ photoShares' = RemoveAt(photoShares, i)
    /\ photoAlert' = "sharing_unavailable"
    /\ lastPhotoOp' = "shared"
    /\ UNCHANGED <<timecardVars, exportVars, jobVars, photos, selectedPhotoIndex,
                   currentIndex, imageLoading>>

\* isAvailableAsync or shareAsync rejects
ShareReject(i) ==
    /\ i \in 1..Len(photoShares)
    /\ photoShares' = RemoveAt(photoShares, i)
    /\ photoAlert' = "share_error"
    /\ lastPhotoOp' = "shared"
    /\ UNCHANGED <<timecardVars, exportVars, jobVars, photos, selectedPhotoIndex,
                   currentIndex, imageLoading>>

NextPhotos ==
    \/ \E direction \in {"next", "prev"} : NavigatePhoto(direction)
    \/ \E index \in 0..(MaxPhotos - 1) : SelectThumbnail(index)
    \/ OnLoadStart
    \/ OnLoadEnd
    \/ PressShare
    \/ \E i \in 1..MaxShares : ShareResolve(i)
    \/ \E i \in 1..MaxShares : ShareUnavailable(i)
    \/ \E i \in 1..MaxShares : ShareReject(i)

SpecPhotos == InitPhotos /\ [][NextPhotos]_vars

IndexInside == currentIndex \in 0..(Len(photos) - 1)

\* C21: with a non-empty photo list and a start index inside it, the current
\* index stays inside [0, photos.length - 1]; a call of navigatePhoto('next')
\* at the last photo, or of navigatePhoto('prev') at the first, leaves the
\* index and the loading flag as they are.
Thm_C21_IndexInside ==
    /\ [](photos # <<>> => IndexInside)
    /\ [][ /\ (lastPhotoOp' = "next" /\ currentIndex = Len(photos) - 1) =>
                  (currentIndex' = currentIndex /\ imageLoading' = imageLoading)
           /\ (lastPhotoOp' = "prev" /\ currentIndex = 0) =>
                  (currentIndex' = currentIndex /\ imageLoading' = imageLoading)
         ]_vars

\* the viewer was opened on the first of several photos, has reached the
\* last one, and 'next' was called there after the photo had loaded
Wit_C21_IndexInside ==
    /\ Len(photos) > 1
    /\ selectedPhotoIndex = 0
    /\ currentIndex = Len(photos) - 1
    /\ lastPhotoOp = "next"
    /\ imageLoading = FALSE

============================================================================
